---- MODULE Spec2Model ----
(***************************************************************************)
(* A model of bibtex_to_qmd.py: the conversion of the entries of a BibTeX  *)
(* database into one .qmd page per entry, with the image resolver          *)
(* (find_or_create_image / create_pdf_thumbnail), its run statistics and   *)
(* its memo of failed URLs, and the pure string function format_title.     *)
(*                                                                         *)
(* Strings the code inspects character by character (citation keys,        *)
(* titles) are sequences of one-character strings.  Strings the code       *)
(* inspects by substring (URLs, author names) are sequences of tokens.     *)
(***************************************************************************)
EXTENDS Integers, Sequences, FiniteSets, TLC

VARIABLES
    pc,          \* position of __main__: start, next, done, aborted
    n,           \* number of entries entry_to_qmd has returned for
    handed,      \* number of entries handed to entry_to_qmd
    ids,         \* the entry["ID"] values of those entries
    files,       \* publications/: path <<directory, name>> -> image line of the page
    trace,       \* what entry_to_qmd did for the last entry, in order
    last,        \* the type of the last entry and the file opened for it
    images,      \* _assets/img/pubs: set of <<citekey, extension>>
    FAILED_PDF_URLS,
    IMAGE_STATS,
    PDF_SUPPORT, \* whether fitz and PIL could be imported
    observed,    \* <<url, succeeded>> of every GET of this run or the reference run
    attempts,    \* every GET made so far, in order: <<url, succeeded>>
    doiFailed,   \* whether a GET of some entry's DOI URL has failed
    lastRes,     \* what the last call of find_or_create_image did
    genKeys,     \* citekeys find_or_create_image generated a thumbnail for
    ref,         \* the reference run: the same entries and network, no memo check
    title,       \* format_title: its argument
    formatted,   \* format_title: its result
    tpc,         \* format_title: idle, in (argument chosen), out (returned)
    underscoreIsPunct  \* whether the installed titlecase skips a leading "_"

vars == <<pc, n, handed, ids, files, trace, last, images, FAILED_PDF_URLS, IMAGE_STATS,
          PDF_SUPPORT, observed, attempts, doiFailed, lastRes, genKeys,
          ref, title, formatted, tpc, underscoreIsPunct>>

titleVars == <<title, formatted, tpc, underscoreIsPunct>>

\* Python's None where the other values are sequences: an absent field, no
\* image path.
None == <<>>

\* Entries handed to entry_to_qmd in one run.
MaxRecords == 2

------------------------------------------------------------------------------
(* Helpers on sequences *)

Range(s) == {s[i] : i \in DOMAIN s}

RECURSIVE SumOver(_, _)
SumOver(f, S) ==
    IF S = {} THEN 0
    ELSE LET x == CHOOSE y \in S : TRUE IN f[x] + SumOver(f, S \ {x})

------------------------------------------------------------------------------
(* citekey_to_string *)

\* The characters of [a-zA-Z0-9_-] that occur in the model's citation keys.
SafeChars == {"a", "b", "k", "2", "_", "-"}

citekey_to_string(citekey) ==
    [i \in DOMAIN citekey |-> IF citekey[i] \in SafeChars THEN citekey[i] ELSE "_"]

------------------------------------------------------------------------------
(* format_author_name.  A name is the sequence of its comma-separated      *)
(* parts, each <<key, value>> for "key=value" and <<"", value>> for plain  *)
(* text; so "family=" occurs in the name iff a part has key family, and    *)
(* "," occurs in it iff it has more than one part.                         *)

Crash == "AttributeError"

\* re.search found no match.
NoMatch == "None"

\* key= occurs in the text of a part: "prefix=" also occurs in "useprefix=".
Occurs(key, part) ==
    \/ part[1] = key
    \/ key = "prefix" /\ part[1] = "useprefix"

Contains(name, key) == \E i \in DOMAIN name : Occurs(key, name[i])

\* re.search(key + "=([^,]+)", name): the first occurrence of key= that is
\* followed by at least one character other than a comma; None without one.
ReSearch(key, name) ==
    LET hits == {i \in DOMAIN name : Occurs(key, name[i]) /\ name[i][2] # ""}
    IN  IF hits = {} THEN NoMatch
        ELSE name[CHOOSE i \in hits : \A j \in hits : i <= j][2]

\* .group(1) of NoMatch raises AttributeError.
format_author_name(name) ==
    IF Contains(name, "family") /\ Contains(name, "given")
    THEN LET family == ReSearch("family", name)
             given == ReSearch("given", name)
         IN  IF family = NoMatch \/ given = NoMatch THEN Crash
             ELSE IF Contains(name, "prefix")
                  THEN LET prefix == ReSearch("prefix", name)
                           use_prefix == ReSearch("useprefix", name)
                       IN  IF prefix = NoMatch \/ use_prefix = NoMatch THEN Crash
                           ELSE IF use_prefix = "true"
                                THEN <<given, prefix, family>>
                                ELSE <<given, family>>
                  ELSE <<given, family>>
    ELSE IF Len(name) > 1 THEN <<name[2][2], name[1][2]>>
    ELSE <<name[1][2]>>

------------------------------------------------------------------------------
(* The entries bibtexparser can hand to entry_to_qmd. *)

IDs == { <<"a", ":", "b">>, <<"a", "_", "b">>, <<"k", "2">> }

EntryTypes == {"article", "inproceedings", "online", "preprint", "book"}

PdfUrl == <<"https://x.org/a", ".PDF">>
PageUrl == <<"https://x.org/a">>
Doi == <<"10.1/d1">>

CommaName == << <<"", "Doss-Gollin">>, <<"", "James">> >>
TaggedName == << <<"family", "Beek">>, <<"given", "Eric">>,
                 <<"prefix", "van">>, <<"useprefix", "true">> >>
NoUsePrefixName == << <<"family", "Beek">>, <<"given", "Eric">>, <<"prefix", "van">> >>
EmptyFamilyName == << <<"family", "">>, <<"given", "Eric">> >>

\* entry["author"] split on " and ".
GoodAuthors == <<CommaName, TaggedName>>
BadAuthorLists == { <<CommaName, NoUsePrefixName>>, <<EmptyFamilyName>> }

\* The fields of an entry that name a source; a field that is absent from
\* the entry is None.
Sources ==
    { [preprint |-> None, url |-> None, doi |-> None],
      [preprint |-> None, url |-> None, doi |-> Doi],
      [preprint |-> None, url |-> PageUrl, doi |-> None],
      [preprint |-> None, url |-> PdfUrl, doi |-> None],
      [preprint |-> PdfUrl, url |-> PdfUrl, doi |-> Doi] }

Entry(id, type, s, authors) ==
    [ID |-> id, ENTRYTYPE |-> type, preprint |-> s.preprint, url |-> s.url,
     doi |-> s.doi, author |-> authors]

\* Articles with every citation key and every choice of sources, entries of
\* every type and citation key with no URL field, and entries with malformed
\* names.
Entries ==
    {Entry(id, "article", s, GoodAuthors) : id \in IDs, s \in Sources}
    \cup {Entry(id, type, s, GoodAuthors) :
             id \in IDs, type \in EntryTypes, s \in {x \in Sources : x.url = None}}
    \cup {Entry(<<"k", "2">>, "article", s, a) :
             s \in {x \in Sources : x.preprint = None /\ x.url = None},
             a \in BadAuthorLists}

Has(entry, field) == entry[field] # None

DoiUrl(doi) == <<"https://doi.org/">> \o doi

FetchUrls == {PdfUrl, DoiUrl(Doi)}

------------------------------------------------------------------------------
(* find_or_create_image and create_pdf_thumbnail.  The resolver's state is *)
(* a record st: the image directory, the memo, the statistics, and the     *)
(* GETs made (fetched).                                                    *)

StatKeys == {"existing_images", "generated_thumbnails", "failed_thumbnails",
             "no_pdf_sources", "skipped_types"}

ZeroStats == [k \in StatKeys |-> 0]

Bump(stats, k) == [stats EXCEPT ![k] = @ + 1]

Extensions == <<"png", "jpg", "jpeg">>

ImagePath(citekey, extension) == <<"../../_assets/img/pubs", citekey, extension>>

\* url.lower(): the tokens of the model's URLs in lower case.
Lower(token) == IF token = ".PDF" THEN ".pdf" ELSE token

ContainsPdf(url) == \E i \in DOMAIN url : Lower(url[i]) = ".pdf"

\* Variants of create_pdf_thumbnail: one that does not record a failed URL,
\* one that records every URL it tried, one that does not save the image.
create_pdf_thumbnail_forgetful(pdf_url, citekey, st, up, checkMemo) ==
    IF ~PDF_SUPPORT THEN [ok |-> FALSE, st |-> st]
    ELSE IF checkMemo /\ pdf_url \in st.memo THEN [ok |-> FALSE, st |-> st]
    ELSE IF pdf_url \in up
    THEN [ok |-> TRUE,
          st |-> [st EXCEPT !.images = @ \cup {<<citekey, "png">>},
                            !.stats = Bump(@, "generated_thumbnails"),
                            !.fetched = Append(@, <<pdf_url, TRUE>>)]]
    ELSE [ok |-> FALSE,
          st |-> [st EXCEPT !.stats = Bump(@, "failed_thumbnails"),
                            !.fetched = Append(@, <<pdf_url, FALSE>>)]]

create_pdf_thumbnail_memo_all(pdf_url, citekey, st, up, checkMemo) ==
    IF ~PDF_SUPPORT THEN [ok |-> FALSE, st |-> st]
    ELSE IF checkMemo /\ pdf_url \in st.memo THEN [ok |-> FALSE, st |-> st]
    ELSE IF pdf_url \in up
    THEN [ok |-> TRUE,
          st |-> [st EXCEPT !.images = @ \cup {<<citekey, "png">>},
                            !.memo = @ \cup {pdf_url},
                            !.stats = Bump(@, "generated_thumbnails"),
                            !.fetched = Append(@, <<pdf_url, TRUE>>)]]
    ELSE [ok |-> FALSE,
          st |-> [st EXCEPT !.memo = @ \cup {pdf_url},
                            !.stats = Bump(@, "failed_thumbnails"),
                            !.fetched = Append(@, <<pdf_url, FALSE>>)]]

create_pdf_thumbnail_unsaved(pdf_url, citekey, st, up, checkMemo) ==
    IF ~PDF_SUPPORT THEN [ok |-> FALSE, st |-> st]
    ELSE IF checkMemo /\ pdf_url \in st.memo THEN [ok |-> FALSE, st |-> st]
    ELSE IF pdf_url \in up
    THEN [ok |-> TRUE,
          st |-> [st EXCEPT !.stats = Bump(@, "generated_thumbnails"),
                            !.fetched = Append(@, <<pdf_url, TRUE>>)]]
    ELSE [ok |-> FALSE,
          st |-> [st EXCEPT !.memo = @ \cup {pdf_url},
                            !.stats = Bump(@, "failed_thumbnails"),
                            !.fetched = Append(@, <<pdf_url, FALSE>>)]]

\* up: the URLs whose GET, render and save succeed now.  checkMemo is FALSE
\* only in the reference run, which skips the test of lines 129-130.
create_pdf_thumbnail(pdf_url, citekey, st, up, checkMemo) ==
    IF ~PDF_SUPPORT THEN [ok |-> FALSE, st |-> st]
    ELSE IF checkMemo /\ pdf_url \in st.memo THEN [ok |-> FALSE, st |-> st]
    ELSE IF pdf_url \in up
    THEN [ok |-> TRUE,
          st |-> [st EXCEPT !.images = @ \cup {<<citekey, "png">>},
                            !.stats = Bump(@, "generated_thumbnails"),
                            !.fetched = Append(@, <<pdf_url, TRUE>>)]]
    ELSE [ok |-> FALSE,
          st |-> [st EXCEPT !.memo = @ \cup {pdf_url},
                            !.stats = Bump(@, "failed_thumbnails"),
                            !.fetched = Append(@, <<pdf_url, FALSE>>)]]

\* Lines 189-202: the candidate URLs, in order.
PdfUrls(entry) ==
    (IF Has(entry, "preprint") THEN <<entry.preprint>> ELSE <<>>)
    \o (IF Has(entry, "url") /\ ContainsPdf(entry.url) THEN <<entry.url>> ELSE <<>>)
    \o (IF Has(entry, "doi") THEN <<DoiUrl(entry.doi)>> ELSE <<>>)

\* Lines 204-212: the loop over the candidates.
RECURSIVE TryUrls(_, _, _, _, _)
TryUrls(pdf_urls, citekey, st, up, checkMemo) ==
    IF pdf_urls = <<>>
    THEN [path |-> None, st |-> [st EXCEPT !.stats = Bump(@, "no_pdf_sources")]]
    ELSE LET r == create_pdf_thumbnail(Head(pdf_urls), citekey, st, up, checkMemo)
         IN  IF r.ok THEN [path |-> ImagePath(citekey, "png"), st |-> r.st]
             ELSE TryUrls(Tail(pdf_urls), citekey, r.st, up, checkMemo)

ThumbnailTypes == {"article", "online", "preprint"}

find_or_create_image(entry, st, up, checkMemo) ==
    LET citekey == citekey_to_string(entry.ID)
        found == {i \in DOMAIN Extensions : <<citekey, Extensions[i]>> \in st.images}
    IN  IF found # {}
        THEN [path |-> ImagePath(citekey,
                                 Extensions[CHOOSE i \in found : \A j \in found : i <= j]),
              st |-> [st EXCEPT !.stats = Bump(@, "existing_images")]]
        ELSE IF entry.ENTRYTYPE \notin ThumbnailTypes
        THEN [path |-> None, st |-> [st EXCEPT !.stats = Bump(@, "skipped_types")]]
        ELSE TryUrls(PdfUrls(entry), citekey, st, up, checkMemo)

------------------------------------------------------------------------------
(* entry_to_qmd and write_metadata_to_qmd *)

\* A variant that knows articles only.
DirectoryOfArticleOnly(entry_type) ==
    IF entry_type = "article" THEN "publications/article"
    ELSE "publications/other"

\* Lines 340-347.
Directory(entry_type) ==
    IF entry_type = "article" THEN "publications/article"
    ELSE IF entry_type = "inproceedings" THEN "publications/conference"
    ELSE IF entry_type \in {"online", "preprint"} THEN "publications/forthcoming"
    ELSE "publications/other"

QmdFilename(entry) == <<Directory(entry.ENTRYTYPE), citekey_to_string(entry.ID)>>

\* Lines 243-247: the author lines written before a name raises, and whether
\* one does.
AuthorsRaise(entry) ==
    \E i \in DOMAIN entry.author : format_author_name(entry.author[i]) = Crash

AuthorLines(entry) ==
    LET bad == {i \in DOMAIN entry.author : format_author_name(entry.author[i]) = Crash}
        stop == IF bad = {} THEN Len(entry.author) + 1
                ELSE CHOOSE i \in bad : \A j \in bad : i <= j
    IN  [i \in 1..(stop - 1) |-> "author"]

\* Lines 235-274: what write_metadata_to_qmd writes before it calls
\* find_or_create_image (the model's entries have no date, volume, number
\* or pages field).
HeadLines(entry) ==
    <<"---", "title", "author:">> \o AuthorLines(entry)
    \o (IF AuthorsRaise(entry) THEN <<>> ELSE <<"date", "details", "nocite">>)

\* Lines 282-332: what it writes after the image line.
TailLines(entry) ==
    <<"about">>
    \o (IF Has(entry, "doi") \/ Has(entry, "preprint") \/ Has(entry, "url")
        THEN <<"links">> ELSE <<>>)
    \o <<"format", "---", "bibliography">>

\* A variant that resolves the image before it opens the file.
WriteMetadataImageFirst(entry, image_path) ==
    <<"find_or_create_image", "open">> \o HeadLines(entry)
    \o (IF image_path # None THEN <<"image">> ELSE <<>>)
    \o TailLines(entry) \o <<"close">>

\* Lines 352-353 and 232-332: everything entry_to_qmd does for an entry
\* whose names do not raise, in order.  image_path is what
\* find_or_create_image returns.
WriteMetadata(entry, image_path) ==
    <<"open">> \o HeadLines(entry) \o <<"find_or_create_image">>
    \o (IF image_path # None THEN <<"image">> ELSE <<>>)
    \o TailLines(entry) \o <<"close">>

Open == <<"open">>

\* open(qmd_filename, "w") creates or truncates the file.
WriteFile(fs, path, content) ==
    [p \in DOMAIN fs \cup {path} |-> IF p = path THEN content ELSE fs[p]]

\* What an earlier run left in publications/.
StaleFiles == [p \in {<<"publications/other", <<"o", "l", "d">>>>} |-> None]

------------------------------------------------------------------------------
(* The run: __main__ *)

NoRes == [key |-> None, had |-> FALSE, path |-> None, fetched |-> <<>>,
          delta |-> ZeroStats, saved |-> {}]

Init ==
    /\ pc = "start"
    /\ n = 0
    /\ handed = 0
    /\ ids = {}
    /\ files = StaleFiles
    /\ trace = <<>>
    /\ last = [type |-> "", file |-> None]
    /\ images \in SUBSET {<<<<"k", "2">>, "jpg">>}
    /\ FAILED_PDF_URLS = {}
    /\ IMAGE_STATS = ZeroStats
    /\ PDF_SUPPORT \in BOOLEAN
    /\ observed = {}
    /\ attempts = <<>>
    /\ doiFailed = FALSE
    /\ lastRes = NoRes
    /\ genKeys = {}
    /\ ref = [images |-> images, files |-> files, path |-> None, fetched |-> <<>>]
    /\ title = <<>>
    /\ formatted = <<>>
    /\ tpc = "idle"
    /\ underscoreIsPunct = FALSE

\* clean_publication_directories: every .qmd file of the four directories
\* is removed.
Clean ==
    /\ pc = "start"
    /\ pc' = "next"
    /\ files' = <<>>
    /\ ref' = [ref EXCEPT !.files = <<>>]
    /\ UNCHANGED <<n, handed, ids, trace, last, images, FAILED_PDF_URLS, IMAGE_STATS,
                   PDF_SUPPORT, observed, attempts, doiFailed, lastRes,
                   genKeys>>

\* entry_to_qmd(entry) when a name of the entry raises in format_author_name:
\* the file was opened and holds the lines written before; nothing catches
\* the exception, so the run ends there.
EntryRaises(entry) ==
    /\ AuthorsRaise(entry)
    /\ pc' = "aborted"
    /\ handed' = handed + 1
    /\ last' = [type |-> entry.ENTRYTYPE, file |-> QmdFilename(entry)]
    /\ ids' = ids \cup {entry.ID}
    /\ trace' = <<"open">> \o HeadLines(entry)
    /\ files' = WriteFile(files, QmdFilename(entry), Open)
    /\ ref' = [ref EXCEPT !.files = WriteFile(@, QmdFilename(entry), Open)]
    /\ UNCHANGED <<n, images, FAILED_PDF_URLS, IMAGE_STATS, PDF_SUPPORT,
                   observed, attempts, doiFailed, lastRes, genKeys>>

\* entry_to_qmd(entry) otherwise, with up those of the entry's candidate URLs
\* whose GET succeeds while the entry is handled: the file is opened, the lines up to nocite
\* are written, find_or_create_image is called, and the image line and the
\* rest are written.  The reference run does the same with the memo unchecked.
EntryWritten(entry, up) ==
    /\ ~AuthorsRaise(entry)
    /\ \E r \in {find_or_create_image(entry, [images |-> images, memo |-> FAILED_PDF_URLS,
                                                stats |-> IMAGE_STATS, fetched |-> <<>>],
                                        up, TRUE)},
          r2 \in {find_or_create_image(entry, [images |-> ref.images, memo |-> {},
                                                 stats |-> ZeroStats, fetched |-> <<>>],
                                         up, FALSE)},
          citekey \in {citekey_to_string(entry.ID)} :
           /\ images' = r.st.images
           /\ FAILED_PDF_URLS' = r.st.memo
           /\ IMAGE_STATS' = r.st.stats
           /\ attempts' = attempts \o r.st.fetched
           /\ observed' = observed \cup Range(r.st.fetched) \cup Range(r2.st.fetched)
           /\ doiFailed' = (doiFailed \/
                  (Has(entry, "doi") /\ <<DoiUrl(entry.doi), FALSE>> \in Range(r.st.fetched)))
           /\ lastRes' = [key |-> citekey, had |-> citekey \in genKeys,
                          path |-> r.path, fetched |-> r.st.fetched,
                          delta |-> [k \in StatKeys |-> r.st.stats[k] - IMAGE_STATS[k]],
                          saved |-> r.st.images \ images]
           /\ genKeys' = IF r.st.stats["generated_thumbnails"]
                             > IMAGE_STATS["generated_thumbnails"]
                         THEN genKeys \cup {citekey} ELSE genKeys
           /\ trace' = WriteMetadata(entry, r.path)
           /\ files' = WriteFile(files, QmdFilename(entry), r.path)
           /\ ref' = [images |-> r2.st.images,
                      files |-> WriteFile(ref.files, QmdFilename(entry), r2.path),
                      path |-> r2.path, fetched |-> r2.st.fetched]
    /\ handed' = handed + 1
    /\ last' = [type |-> entry.ENTRYTYPE, file |-> QmdFilename(entry)]
    /\ ids' = ids \cup {entry.ID}
    /\ n' = n + 1
    /\ UNCHANGED <<pc, PDF_SUPPORT>>

\* One iteration of the loop of create_qmd_from_bib.
ProcessEntry(entry, up) ==
    /\ pc = "next"
    /\ n < MaxRecords
    /\ (EntryRaises(entry) \/ EntryWritten(entry, up))

\* The loop of create_qmd_from_bib ends after the last entry; the summary
\* is printed.
EndOfEntries ==
    /\ pc = "next"
    /\ pc' = "done"
    /\ UNCHANGED <<n, handed, ids, files, trace, last, images, FAILED_PDF_URLS,
                   IMAGE_STATS, PDF_SUPPORT, observed, attempts, doiFailed,
                   lastRes, genKeys, ref>>

\* "Total publications" of the summary, line 415.
TotalPublications == SumOver(IMAGE_STATS, StatKeys)

Next ==
    \/ Clean /\ UNCHANGED titleVars
    \/ (\E entry \in Entries : \E up \in SUBSET Range(PdfUrls(entry)) :
            ProcessEntry(entry, up))
       /\ UNCHANGED titleVars
    \/ EndOfEntries /\ UNCHANGED titleVars

Spec == Init /\ [][Next]_vars

------------------------------------------------------------------------------
(* format_title, on sequences of characters *)

Min(S) == CHOOSE x \in S : \A y \in S : x <= y

\* sub in s
In(sub, s) ==
    \E i \in 0..(Len(s) - Len(sub)) : SubSeq(s, i + 1, i + Len(sub)) = sub

\* s.replace(old, new), old not empty: every occurrence, left to right,
\* without overlap.
RECURSIVE Replace(_, _, _)
Replace(s, old, new) ==
    IF Len(s) < Len(old) THEN s
    ELSE IF SubSeq(s, 1, Len(old)) = old
    THEN new \o Replace(SubSeq(s, Len(old) + 1, Len(s)), old, new)
    ELSE <<Head(s)>> \o Replace(Tail(s), old, new)

\* Lines 54-55.
RECURSIVE CollapseBraces(_)
CollapseBraces(t) ==
    IF In(<<"{", "{">>, t) /\ In(<<"}", "}">>, t)
    THEN CollapseBraces(Replace(Replace(t, <<"{", "{">>, <<"{">>), <<"}", "}">>, <<"}">>))
    ELSE t

\* re.findall(r"{(.*?)}", t): from the leftmost "{" that has a "}" after it
\* to the first such "}", then on from there.
RECURSIVE FindAll(_)
FindAll(t) ==
    LET opens == {i \in DOMAIN t : t[i] = "{" /\ \E j \in (i + 1)..Len(t) : t[j] = "}"}
    IN  IF opens = {} THEN <<>>
        ELSE LET i == Min(opens)
                 j == Min({k \in (i + 1)..Len(t) : t[k] = "}"})
             IN  <<SubSeq(t, i + 1, j - 1)>> \o FindAll(SubSeq(t, j + 1, Len(t)))

DigitChars == <<"0", "1", "2", "3", "4", "5", "6", "7", "8", "9">>

\* str(idx)
RECURSIVE Decimal(_)
Decimal(idx) ==
    IF idx < 10 THEN <<DigitChars[idx + 1]>>
    ELSE Decimal(idx \div 10) \o <<DigitChars[(idx % 10) + 1]>>

\* f"_p{idx}"
Placeholder(idx) == <<"_", "p">> \o Decimal(idx)

\* Lines 59-61, from idx on.
RECURSIVE InsertPlaceholders(_, _, _)
InsertPlaceholders(t, preserved_texts, idx) ==
    IF idx = Len(preserved_texts) THEN t
    ELSE InsertPlaceholders(
             Replace(t, <<"{">> \o preserved_texts[idx + 1] \o <<"}">>, Placeholder(idx)),
             preserved_texts, idx + 1)

\* Lines 67-69, from idx on.
RECURSIVE RestoreTexts(_, _, _)
RestoreTexts(t, preserved_texts, idx) ==
    IF idx = Len(preserved_texts) THEN t
    ELSE RestoreTexts(Replace(t, Placeholder(idx), preserved_texts[idx + 1]),
                      preserved_texts, idx + 1)

(* titlecase, the library: the rules the model's titles exercise.  A line  *)
(* is split at spaces; a word with a capital after its first letter is     *)
(* kept; a small word is lower-cased, unless it is the first or the last   *)
(* word; any other word has the letter after its leading punctuation       *)
(* capitalised.                                                            *)

Lowers == <<"a", "b", "c", "d", "e", "f", "g", "h", "i", "j", "k", "l", "m",
            "n", "o", "p", "q", "r", "s", "t", "u", "v", "w", "x", "y", "z">>
Uppers == <<"A", "B", "C", "D", "E", "F", "G", "H", "I", "J", "K", "L", "M",
            "N", "O", "P", "Q", "R", "S", "T", "U", "V", "W", "X", "Y", "Z">>

IsLower(c) == \E i \in DOMAIN Lowers : Lowers[i] = c
IsUpper(c) == \E i \in DOMAIN Uppers : Uppers[i] = c
IsLetter(c) == IsLower(c) \/ IsUpper(c)
ToUpper(c) == IF IsLower(c) THEN Uppers[CHOOSE i \in DOMAIN Lowers : Lowers[i] = c] ELSE c
ToLower(c) == IF IsUpper(c) THEN Lowers[CHOOSE i \in DOMAIN Uppers : Uppers[i] = c] ELSE c

SmallWords == { <<"a">>, <<"a", "n">>, <<"a", "n", "d">>, <<"a", "s">>, <<"a", "t">>,
                <<"b", "u", "t">>, <<"b", "y">>, <<"e", "n">>, <<"f", "o", "r">>,
                <<"i", "f">>, <<"i", "n">>, <<"o", "f">>, <<"o", "n">>, <<"o", "r">>,
                <<"t", "h", "e">>, <<"t", "o">>, <<"v", "i", "a">> }

\* The punctuation of the model's alphabet.  Whether "_" counts is the
\* library's business: underscoreIsPunct.
Punct(skip) == {"{", "}"} \cup (IF skip THEN {"_"} ELSE {})

\* Number of leading characters of w that are punctuation.
RECURSIVE Leading(_, _)
Leading(w, skip) ==
    IF w # <<>> /\ Head(w) \in Punct(skip) THEN 1 + Leading(Tail(w), skip) ELSE 0

\* Number of leading characters of w that are letters.
RECURSIVE LetterRun(_)
LetterRun(w) == IF w # <<>> /\ IsLetter(Head(w)) THEN 1 + LetterRun(Tail(w)) ELSE 0

TitlecaseWord(w, edge, skip) ==
    LET k == Leading(w, skip)
        run == LetterRun(SubSeq(w, k + 1, Len(w)))
        lower == [i \in DOMAIN w |-> ToLower(w[i])]
        capfirst == [i \in DOMAIN w |-> IF i = k + 1 THEN ToUpper(w[i]) ELSE w[i]]
    IN  IF \E i \in (k + 2)..(k + run) : IsUpper(w[i]) THEN w
        ELSE IF lower \in SmallWords THEN (IF edge THEN [i \in DOMAIN w |->
                                              IF i = 1 THEN ToUpper(lower[i]) ELSE lower[i]]
                                           ELSE lower)
        ELSE IF run > 0 THEN capfirst
        ELSE w

\* t.split(" ")
RECURSIVE Words(_)
Words(t) ==
    LET spaces == {i \in DOMAIN t : t[i] = " "}
    IN  IF spaces = {} THEN <<t>>
        ELSE <<SubSeq(t, 1, Min(spaces) - 1)>> \o Words(SubSeq(t, Min(spaces) + 1, Len(t)))

RECURSIVE Join(_)
Join(ws) == IF Len(ws) = 1 THEN ws[1] ELSE ws[1] \o <<" ">> \o Join(Tail(ws))

Titlecase(t, skip) ==
    LET ws == Words(t)
    IN  Join([i \in DOMAIN ws |-> TitlecaseWord(ws[i], i = 1 \/ i = Len(ws), skip)])

format_title(t, skip) ==
    IF t = <<>> THEN t
    ELSE LET collapsed == CollapseBraces(t)
             preserved_texts == FindAll(collapsed)
         IN  RestoreTexts(
                 Titlecase(InsertPlaceholders(collapsed, preserved_texts, 0), skip),
                 preserved_texts, 0)

(* The titles format_title is applied to: every concatenation of up to    *)
(* MaxChunks chunks, and a few longer ones.                               *)

MaxChunks == 4

Chunks == { <<"a">>, <<"N">>, <<" ">>, <<"{">>, <<"}">>, <<"o", "f">>, <<"_">>, <<"1">> }

RECURSIVE Flatten(_)
Flatten(ss) == IF ss = <<>> THEN <<>> ELSE Head(ss) \o Flatten(Tail(ss))

\* "A Study of {NASA} Missions"
NasaTitle == <<"A", " ", "S", "t", "u", "d", "y", " ", "o", "f", " ",
               "{", "N", "A", "S", "A", "}", " ", "M", "i", "s", "s", "i", "o", "n", "s">>

\* "{a}{b}{c}{d}{e}{f}{g}{h}{i}{j}{k}": eleven spans
ElevenSpans == Flatten([i \in 1..11 |-> <<"{", Lowers[i], "}">>])

\* "{_p1} and {x}": the text of a span is the placeholder of another
PlaceholderInSpan == <<"{", "_", "p", "1", "}", " ", "a", "n", "d", " ", "{", "x", "}">>

Titles ==
    {Flatten(cs) : cs \in UNION {[1..k -> Chunks] : k \in 0..MaxChunks}}
    \cup {NasaTitle, ElevenSpans, PlaceholderInSpan}

RunIdle ==
    /\ pc = "idle"
    /\ n = 0
    /\ handed = 0
    /\ ids = {}
    /\ files = <<>>
    /\ trace = <<>>
    /\ last = [type |-> "", file |-> None]
    /\ images = {}
    /\ FAILED_PDF_URLS = {}
    /\ IMAGE_STATS = ZeroStats
    /\ PDF_SUPPORT = FALSE
    /\ observed = {}
    /\ attempts = <<>>
    /\ doiFailed = FALSE
    /\ lastRes = NoRes
    /\ genKeys = {}
    /\ ref = [images |-> {}, files |-> <<>>, path |-> None, fetched |-> <<>>]

InitTitle ==
    /\ RunIdle
    /\ title \in Titles
    /\ formatted = <<>>
    /\ tpc = "in"
    /\ underscoreIsPunct \in BOOLEAN

FormatTitle ==
    /\ tpc = "in"
    /\ formatted' = format_title(title, underscoreIsPunct)
    /\ tpc' = "out"
    /\ UNCHANGED <<title, underscoreIsPunct, pc, n, handed, ids, files, trace, last,
                   images, FAILED_PDF_URLS, IMAGE_STATS, PDF_SUPPORT, observed,
                   attempts, doiFailed, lastRes, genKeys, ref>>

NextTitle == FormatTitle

SpecTitle == InitTitle /\ [][NextTitle]_vars

------------------------------------------------------------------------------
(* Properties of format_title *)

\* Braces that open and close in turn, none inside another.
RECURSIVE Flat(_, _)
Flat(t, open) ==
    IF t = <<>> THEN ~open
    ELSE IF Head(t) = "{" THEN ~open /\ Flat(Tail(t), TRUE)
    ELSE IF Head(t) = "}" THEN open /\ Flat(Tail(t), FALSE)
    ELSE Flat(Tail(t), open)

Marks == <<"#0", "#1", "#2", "#3", "#4", "#5", "#6", "#7", "#8", "#9", "#10", "#11">>

Mark(k) == Marks[k + 1]

\* t with its k-th span (braces included) replaced by the one symbol
\* Mark(k), which is neither a letter nor punctuation; texts collects the
\* spans.
RECURSIVE MarkSpans(_, _)
MarkSpans(t, k) ==
    IF "{" \notin Range(t) THEN [marked |-> t, texts |-> <<>>]
    ELSE LET i == Min({x \in DOMAIN t : t[x] = "{"})
             j == Min({x \in DOMAIN t : x > i /\ t[x] = "}"})
             rest == MarkSpans(SubSeq(t, j + 1, Len(t)), k + 1)
         IN  [marked |-> SubSeq(t, 1, i - 1) \o <<Mark(k)>> \o rest.marked,
              texts |-> <<SubSeq(t, i + 1, j - 1)>> \o rest.texts]

RECURSIVE Unmark(_, _, _)
Unmark(t, texts, k) ==
    IF t = <<>> THEN <<>>
    ELSE IF k <= Len(texts) /\ Head(t) = Mark(k - 1)
    THEN texts[k] \o Unmark(Tail(t), texts, k + 1)
    ELSE <<Head(t)>> \o Unmark(Tail(t), texts, k)

\* What the claim asks of a title with flat braces: the text outside the
\* spans title-cased, the text of every span as it was, where it was.
SpansKept(t) ==
    LET m == MarkSpans(t, 0)
    IN  Unmark(Titlecase(m.marked, FALSE), m.texts, 1)

\* C6: for a title with brace-delimited spans, format_title returns the
\* text outside the spans title-cased and the text of every span unchanged
\* at its place, whatever the number of spans and whatever their text.
\* (Stated for a titlecase that leaves a leading "_" alone, as the
\* placeholders of format_title need.)
C6_SpansPreserved ==
    (tpc = "out" /\ ~underscoreIsPunct /\ Flat(title, FALSE))
        => formatted = SpansKept(title)

------------------------------------------------------------------------------
(* Properties of the run *)

Failed(log) == {a[1] : a \in {x \in Range(log) : ~x[2]}}

\* No URL has been seen both to succeed and to fail during the run.
StableNetwork == ~\E u \in FetchUrls : <<u, TRUE>> \in observed /\ <<u, FALSE>> \in observed

\* C1: when find_or_create_image is called for a citekey it generated a
\* thumbnail for earlier, it returns the image that exists, counts one
\* existing image and nothing else, makes no GET and saves nothing.
C1_SecondCallFindsExisting ==
    lastRes.had =>
        /\ lastRes.path = ImagePath(lastRes.key, "png")
        /\ lastRes.fetched = <<>>
        /\ lastRes.saved = {}
        /\ lastRes.delta = Bump(ZeroStats, "existing_images")

C1_Witness ==
    /\ lastRes.had
    /\ lastRes.key = citekey_to_string(<<"a", ":", "b">>)
    /\ IMAGE_STATS["generated_thumbnails"] = 1
    /\ IMAGE_STATS["existing_images"] = 1

\* C2: once the GET of an entry's DOI URL has failed, no later entry ends
\* the run: every entry handed to entry_to_qmd gets its page, and the
\* failure is counted.
C2_FailedFetchNeverBlocks ==
    doiFailed =>
        /\ pc # "aborted"
        /\ handed = n
        /\ IMAGE_STATS["failed_thumbnails"] + IMAGE_STATS["no_pdf_sources"] > 0

\* C3: no entry, however malformed its author names, ends the run with an
\* uncaught error.
C3_NoEntryAbortsTheRun == pc # "aborted"

\* C4: the file of an entry is opened in publications/article for an
\* article, publications/conference for inproceedings,
\* publications/forthcoming for online and preprint, and publications/other
\* for every other type, whatever the rest of the entry.
C4_DirectoryByTypeAlone ==
    last.file # None =>
        /\ last.file \in DOMAIN files
        /\ last.type = "article" => last.file[1] = "publications/article"
        /\ last.type = "inproceedings" => last.file[1] = "publications/conference"
        /\ last.type \in {"online", "preprint"} => last.file[1] = "publications/forthcoming"
        /\ last.type \notin {"article", "inproceedings", "online", "preprint"}
               => last.file[1] = "publications/other"

C4_Witness ==
    /\ pc = "done"
    /\ n = 2
    /\ last.type = "preprint"
    /\ <<"publications/conference", <<"k", "2">>>> \in DOMAIN files

\* C5: when a run has handled entries with pairwise distinct citation keys,
\* publications/ holds as many pages as there were entries.
C5_OneFilePerRecord ==
    (pc = "done" /\ Cardinality(ids) = handed) => Cardinality(DOMAIN files) = n

Position(line) == CHOOSE i \in DOMAIN trace : trace[i] = line

C8_FailedUrlNeverRetried ==
    /\ FAILED_PDF_URLS = Failed(attempts)
    /\ \A i, j \in DOMAIN attempts :
          (i < j /\ ~attempts[i][2]) => attempts[j][1] # attempts[i][1]

\* An entry with three candidates, two of them the same URL: two GETs.
C8_Witness ==
    /\ lastRes.fetched = << <<PdfUrl, FALSE>>, <<DoiUrl(Doi), FALSE>> >>
    /\ handed = 2
    /\ Len(attempts) = 2

SameOutput ==
    /\ lastRes.path = ref.path
    /\ files = ref.files
    /\ images = ref.images

\* C9 as stated: whatever the network does, the run and the reference run
\* (no memo check) return the same image for every entry and leave the same
\* pages and images.
C9_MemoNeverChangesOutput == SameOutput

\* C9, amended: they do so as long as no URL both fails and succeeds during
\* the run.
C9_MemoNeverChangesOutputOnStableNetwork == StableNetwork => SameOutput

\* The reference run made a GET the memo saved the run.
C9_Witness ==
    /\ pc = "done"
    /\ StableNetwork
    /\ Len(ref.fetched) > Len(lastRes.fetched)
    /\ FAILED_PDF_URLS # {}

\* C10: every entry handled adds one to exactly one counter, so the sum the
\* summary prints as "Total publications" is the number of entries handled.
C10_TotalIsNumberOfRecords ==
    /\ SumOver(lastRes.delta, StatKeys) = (IF lastRes.key = None THEN 0 ELSE 1)
    /\ pc = "done" => TotalPublications = n

====
